---- MODULE Spec2Model ----
(***************************************************************************)
(* Model of the autocomplete crawler of script_v1.py (script_v2.py and     *)
(* script_v3.py differ in constants and alphabets only): the main thread,  *)
(* the worker threads, query_api with its retry loop, the token bucket and *)
(* save_progress.                                                          *)
(*                                                                         *)
(* Time is discrete.  The bucket keeps the time elapsed since last_refill  *)
(* (saturating one tick above the period, where the code no longer         *)
(* distinguishes values) and every sleeping thread keeps the time left of  *)
(* its sleep.                                                              *)
(***************************************************************************)
EXTENDS Integers, Sequences, FiniteSets, TLC

\* ---- bounds of the model (scaled-down program constants) ----
NumWorkers == 2          \* MAX_WORKERS
MAX_RETRIES == 1
MAX_PREFIX_LENGTH == 2
MAX_RESULTS == 2
AlphabetSize == 2        \* characters a prefix is extended with ("a".."z" in v1)
NumSeeds == 1            \* characters main() seeds the queue with
NumWords == 1            \* number of distinct words the server can return
Capacity == 2            \* TokenBucket(capacity=...)
Period == 2              \* TokenBucket(refill_period=...), in ticks
SaveInterval == 3        \* "request_counter - last_saved_request >= 100"
Buffer == 1              \* the "+ 0.1" of the two sleeps, one tick
ErrorDelay == 1          \* time.sleep(0.5), one tick

Workers == 1..NumWorkers
Chars == 1..AlphabetSize
Words == 1..NumWords

SeqsUpTo(S, n) == UNION {[1..k -> S] : k \in 0..n}

\* every prefix the crawl can form, and one level more (line 143 guards it)
Prefixes == SeqsUpTo(Chars, MAX_PREFIX_LENGTH + 1) \ {<<>>}

\* the single-character prefixes main() seeds the queue with
SeedPrefixes == [i \in 1..NumSeeds |-> <<i>>]

\* prefix + chr(c) for c in range(97, 123)
NewPrefixes(p) == [i \in 1..AlphabetSize |-> Append(p, i)]

\* the bodies a successful response can carry: response.json().get('results', [])
Responses(p) == SeqsUpTo(Words, MAX_RESULTS + 1)

\* requests.get raising, raise_for_status raising, json() raising
ErrorOutcomes == {"timeout", "connection_error", "bad_status", "bad_body"}

\* mutant: the delay is RETRY_DELAY plus the buffer, whatever the retry
BackoffFlat(r) == 1 + Buffer

\* delay = (2 ** retries) + 0.1
Backoff(r) == 2 ^ r + Buffer

Range(s) == {s[i] : i \in 1..Len(s)}

Max(a, b) == IF a >= b THEN a ELSE b

VARIABLES
    queue,               \* prefix_queue
    explored_prefixes,
    all_names,
    request_counter,
    last_saved_request,
    stop_event,
    data_lock,           \* 0, or the worker that holds data_lock
    tokens,              \* bucket.tokens
    bucket_lock,         \* 0, or the worker that holds bucket.lock
    elapsed,             \* time.monotonic() - bucket.last_refill
    pc,                  \* position of every worker
    prefix,              \* worker's local prefix
    retries,             \* query_api's local retries
    suggestions,         \* what query_api returned to the worker
    timer,               \* time left of the worker's current sleep
    mpc,                 \* position of main()
    pending,             \* an exception is propagating through finally
    names_file,          \* contents of unique_names_v1.txt
    stats_file,          \* contents of stats_v1.txt
    api_calls,           \* history: calls of query_api per prefix
    enqueued,            \* history: calls of prefix_queue.put per prefix
    attempts,            \* history: requests.get calls of the current query_api call
    granted,             \* history: tokens consumed by the current query_api call
    uncounted,           \* history: tokens granted by consume() minus request_counter
    unsent,              \* history: request_counter minus calls of requests.get
    ret,                 \* history: how the current query_api call returned
    final_saves,         \* history: calls of save_progress by main()
    complete,            \* history: main() logged "Queue empty. No more prefixes"
    admits               \* history: admits[i] = tokens granted i-1 ticks ago

shared == <<queue, explored_prefixes, all_names, request_counter, last_saved_request,
            stop_event, data_lock>>
bucketv == <<tokens, elapsed, admits, bucket_lock>>
wvars == <<pc, prefix, retries, suggestions, timer>>
whist == <<api_calls, enqueued, attempts, granted, uncounted, unsent, ret>>
mvars == <<mpc, pending, final_saves, complete>>
files == <<names_file, stats_file>>
vars == <<shared, bucketv, wvars, whist, mvars, files>>

NoNames == [written |-> FALSE, names |-> {}]
NoStats == [written |-> FALSE, unique |-> 0, requests |-> 0]

\* f.write('\n'.join(sorted(all_names)))
WriteNames(names) == [written |-> TRUE, names |-> names]

\* "Total unique names: {len(all_names)}", "Total requests sent: {request_counter}"
WriteStats(names, counter) ==
    [written |-> TRUE, unique |-> Cardinality(names), requests |-> counter]

\* how often each prefix occurs in q
Puts(q) == [p \in Prefixes |-> Cardinality({i \in DOMAIN q : q[i] = p})]

\* the puts so far, and those that turn the queue q into q2
PutsAfter(q, q2) == [p \in Prefixes |-> enqueued[p] + Puts(q2)[p] - Puts(q)[p]]

\* the module-level globals as the module's top-level code leaves them
Globals ==
    /\ explored_prefixes = {}
    /\ all_names = {}
    /\ request_counter = 0
    /\ last_saved_request = 0
    /\ stop_event = FALSE
    /\ data_lock = 0
    /\ tokens = Capacity
    /\ bucket_lock = 0
    /\ elapsed = 0
    /\ admits = [i \in 1..Period |-> 0]
    /\ prefix = [w \in Workers |-> <<>>]
    /\ retries = [w \in Workers |-> 0]
    /\ suggestions = [w \in Workers |-> <<>>]
    /\ timer = [w \in Workers |-> 0]
    /\ pending = FALSE
    /\ names_file = NoNames
    /\ stats_file = NoStats
    /\ api_calls = [p \in Prefixes |-> 0]
    /\ attempts = [w \in Workers |-> 0]
    /\ granted = [w \in Workers |-> 0]
    /\ uncounted = 0
    /\ unsent = 0
    /\ ret = [w \in Workers |-> "none"]
    /\ final_saves = 0
    /\ complete = FALSE

\* main() is about to run and no worker thread exists yet
Init ==
    /\ Globals
    /\ queue = <<>>
    /\ enqueued = Puts(queue)
    /\ pc = [w \in Workers |-> "unstarted"]
    /\ mpc = "m_seed"

\* ------------------------------------------------------------------------
\* worker()
\* ------------------------------------------------------------------------

\* while not stop_event.is_set():
WLoop(w) ==
    /\ pc[w] = "w_loop"
    /\ pc' = [pc EXCEPT ![w] = IF stop_event THEN "stopped" ELSE "w_get"]
    /\ UNCHANGED <<shared, bucketv, prefix, retries, suggestions, timer, whist, mvars, files>>

\* prefix = prefix_queue.get(timeout=1)
WGet(w) ==
    /\ pc[w] = "w_get"
    /\ queue # <<>>
    /\ prefix' = [prefix EXCEPT ![w] = Head(queue)]
    /\ queue' = Tail(queue)
    /\ pc' = [pc EXCEPT ![w] = "w_check"]
    /\ UNCHANGED <<explored_prefixes, all_names, request_counter, last_saved_request,
                   stop_event, data_lock, bucketv, retries, suggestions, timer, whist,
                   mvars, files>>

\* except Empty: continue
WGetEmpty(w) ==
    /\ pc[w] = "w_get"
    /\ queue = <<>>
    /\ pc' = [pc EXCEPT ![w] = "w_loop"]
    /\ UNCHANGED <<shared, bucketv, prefix, retries, suggestions, timer, whist, mvars, files>>

\* if prefix in explored_prefixes or len(prefix) > MAX_PREFIX_LENGTH
Skip(p) == p \in explored_prefixes \/ Len(p) > MAX_PREFIX_LENGTH

\* mutant: the mark replaces the set
MarkExploredOnly(p) == {p}

\* mutant: the prefix is tested but never added to explored_prefixes
MarkExploredForgotten(p) == explored_prefixes

\* explored_prefixes.add(prefix)
MarkExplored(p) == explored_prefixes \cup {p}

\* with data_lock: the test of the prefix and its mark; then query_api(prefix) is called
WCheck(w) ==
    /\ pc[w] = "w_check"
    /\ data_lock = 0
    /\ IF Skip(prefix[w])
       THEN /\ pc' = [pc EXCEPT ![w] = "w_loop"]
            /\ prefix' = [prefix EXCEPT ![w] = <<>>]
            /\ UNCHANGED <<explored_prefixes, retries, whist>>
       ELSE /\ explored_prefixes' = MarkExplored(prefix[w])
            /\ pc' = [pc EXCEPT ![w] = "q_loop"]
            /\ retries' = [retries EXCEPT ![w] = 0]
            /\ api_calls' = [api_calls EXCEPT ![prefix[w]] = @ + 1]
            /\ attempts' = [attempts EXCEPT ![w] = 0]
            /\ granted' = [granted EXCEPT ![w] = 0]
            /\ ret' = [ret EXCEPT ![w] = "none"]
            /\ UNCHANGED <<prefix, enqueued, uncounted, unsent>>
    /\ UNCHANGED <<queue, all_names, request_counter, last_saved_request, stop_event,
                   data_lock, bucketv, suggestions, timer, mvars, files>>

\* ------------------------------------------------------------------------
\* query_api(prefix)
\* ------------------------------------------------------------------------

\* mutant: the loop guard does not look at stop_event
ContinueIgnoringStop(r) == r <= MAX_RETRIES

\* mutant: the loop guard lets one more iteration through
ContinueOneMore(r) == r <= MAX_RETRIES + 1 /\ ~stop_event

\* while retries <= MAX_RETRIES and not stop_event.is_set():
Continue(r) == r <= MAX_RETRIES /\ ~stop_event

\* the head of the retry loop; "return []" when it is left
QLoop(w) ==
    /\ pc[w] = "q_loop"
    /\ IF Continue(retries[w])
       THEN /\ pc' = [pc EXCEPT ![w] = "c_enter"]
            /\ UNCHANGED <<suggestions, ret>>
       ELSE /\ pc' = [pc EXCEPT ![w] = "w_merge"]
            /\ suggestions' = [suggestions EXCEPT ![w] = <<>>]
            /\ ret' = [ret EXCEPT ![w] =
                         IF retries[w] > MAX_RETRIES THEN "exhausted" ELSE "cancelled"]
    /\ UNCHANGED <<shared, bucketv, prefix, retries, timer, api_calls, enqueued, attempts,
                   unsent, granted, uncounted,
                   mvars, files>>

\* mutant: the bucket is refilled as soon as the period has passed
RefillDueEarly == elapsed >= Period

\* if elapsed > self.refill_period
RefillDue == elapsed > Period

\* mutant: the refill forgets "self.last_refill = now"
CEnterClockKept(w) ==
    /\ pc[w] = "c_enter"
    /\ LET tk == IF RefillDue THEN Capacity ELSE tokens
       IN IF tk > 0
          THEN /\ tokens' = tk - 1
               /\ admits' = [admits EXCEPT ![1] = @ + 1]
               /\ granted' = [granted EXCEPT ![w] = @ + 1]
               /\ uncounted' = uncounted + 1
               /\ pc' = [pc EXCEPT ![w] = "q_count"]
               /\ UNCHANGED timer
          ELSE /\ tokens' = tk
               /\ timer' = [timer EXCEPT ![w] = Period - elapsed + Buffer]
               /\ pc' = [pc EXCEPT ![w] = "c_sleep"]
               /\ UNCHANGED <<admits, granted, uncounted>>
    /\ UNCHANGED <<shared, elapsed, bucket_lock, prefix, retries, suggestions, api_calls, enqueued,
                   attempts, unsent, ret, mvars, files>>

\* TokenBucket.consume: what the block under self.lock does
Consume(w) ==
    /\ LET tk == IF RefillDue THEN Capacity ELSE tokens
           el == IF RefillDue THEN 0 ELSE elapsed
       IN IF tk > 0
          THEN /\ tokens' = tk - 1
               /\ elapsed' = el
               /\ admits' = [admits EXCEPT ![1] = @ + 1]
               /\ granted' = [granted EXCEPT ![w] = @ + 1]
               /\ uncounted' = uncounted + 1
               /\ pc' = [pc EXCEPT ![w] = "q_count"]
               /\ UNCHANGED timer
          ELSE /\ tokens' = tk
               /\ elapsed' = el
               /\ timer' = [timer EXCEPT ![w] = Period - el + Buffer]
               /\ pc' = [pc EXCEPT ![w] = "c_sleep"]
               /\ UNCHANGED <<admits, granted, uncounted>>
    /\ UNCHANGED <<shared, prefix, retries, suggestions, api_calls, enqueued, attempts, unsent, ret,
                   mvars, files>>

\* TokenBucket.consume: the block under self.lock, from acquire to release
CEnter(w) ==
    /\ pc[w] = "c_enter"
    /\ bucket_lock = 0
    /\ Consume(w)
    /\ UNCHANGED bucket_lock

\* with self.lock: the lock is acquired
CLock(w) ==
    /\ pc[w] = "c_enter"
    /\ bucket_lock = 0
    /\ bucket_lock' = w
    /\ UNCHANGED <<shared, tokens, elapsed, admits, wvars, whist, mvars, files>>

\* mutant: time.sleep(sleep_time) is inside the with block
CUnlockAfterSleep(w) ==
    /\ pc[w] = "c_enter"
    /\ bucket_lock = w
    /\ Consume(w)
    /\ bucket_lock' = IF pc'[w] = "c_sleep" THEN w ELSE 0

\* the block under self.lock runs and the lock is released
CUnlock(w) ==
    /\ pc[w] = "c_enter"
    /\ bucket_lock = w
    /\ Consume(w)
    /\ bucket_lock' = 0

\* time.sleep(sleep_time); return self.consume()
CSleep(w) ==
    /\ pc[w] = "c_sleep"
    /\ timer[w] = 0
    /\ pc' = [pc EXCEPT ![w] = "c_enter"]
    /\ UNCHANGED <<shared, bucketv, prefix, retries, suggestions, timer, whist, mvars, files>>

\* mutant: the test for a periodic save is off by one
SaveDueLate(counter) == counter - last_saved_request > SaveInterval

\* if request_counter - last_saved_request >= 100
SaveDue(counter) == counter - last_saved_request >= SaveInterval

\* with data_lock: request_counter += 1 and the test for a periodic save
QCount(w) ==
    /\ pc[w] = "q_count"
    /\ data_lock = 0
    /\ request_counter' = request_counter + 1
    /\ uncounted' = uncounted - (request_counter' - request_counter)
    /\ unsent' = unsent + (request_counter' - request_counter)
    /\ IF SaveDue(request_counter + 1)
       THEN /\ last_saved_request' = request_counter + 1
            /\ data_lock' = w
            /\ pc' = [pc EXCEPT ![w] = "q_save"]
       ELSE /\ pc' = [pc EXCEPT ![w] = "q_request"]
            /\ UNCHANGED <<last_saved_request, data_lock>>
    /\ UNCHANGED <<queue, explored_prefixes, all_names, stop_event, bucketv, prefix,
                   retries, suggestions, timer, api_calls, enqueued, attempts, granted,
                   ret, mvars, files>>

\* mutant: an I/O error leaves save_progress and reaches the except clause of
\* query_api, so the attempt is dropped
QSaveRaises(w) ==
    /\ pc[w] = "q_save"
    /\ data_lock = w
    /\ \/ /\ names_file' = WriteNames(all_names)
          /\ stats_file' = WriteStats(all_names, request_counter)
          /\ pc' = [pc EXCEPT ![w] = "q_request"]
          /\ UNCHANGED <<retries, unsent>>
       \/ /\ UNCHANGED files
          /\ pc' = [pc EXCEPT ![w] = "q_loop"]
          /\ retries' = [retries EXCEPT ![w] = @ + 1]
          /\ unsent' = unsent - 1
    /\ data_lock' = 0
    /\ UNCHANGED <<queue, explored_prefixes, all_names, request_counter,
                   last_saved_request, stop_event, bucketv, prefix, suggestions, timer,
                   api_calls, enqueued, attempts, granted, uncounted, ret, mvars>>

\* save_progress() called inside "with data_lock"; an I/O error is logged
QSave(w) ==
    /\ pc[w] = "q_save"
    /\ data_lock = w
    /\ \/ /\ names_file' = WriteNames(all_names)
          /\ stats_file' = WriteStats(all_names, request_counter)
       \/ /\ names_file' = WriteNames(all_names)
          /\ UNCHANGED stats_file
       \/ UNCHANGED files
    /\ data_lock' = 0
    /\ pc' = [pc EXCEPT ![w] = "q_request"]
    /\ UNCHANGED <<queue, explored_prefixes, all_names, request_counter,
                   last_saved_request, stop_event, bucketv, prefix, retries, suggestions,
                   timer, whist, mvars>>

\* requests.get answers 200 and the body parses: return the 'results' list
QRequestOk(w) ==
    /\ pc[w] = "q_request"
    /\ \E body \in Responses(prefix[w]) :
          suggestions' = [suggestions EXCEPT ![w] = body]
    /\ attempts' = [attempts EXCEPT ![w] = @ + 1]
    /\ unsent' = unsent - 1
    /\ ret' = [ret EXCEPT ![w] = "success"]
    /\ pc' = [pc EXCEPT ![w] = "w_merge"]
    /\ UNCHANGED <<shared, bucketv, prefix, retries, timer, api_calls, enqueued, granted,
                   uncounted, mvars, files>>

\* response.status_code == 429: time.sleep(delay)
QRequest429(w) ==
    /\ pc[w] = "q_request"
    /\ attempts' = [attempts EXCEPT ![w] = @ + 1]
    /\ unsent' = unsent - 1
    /\ timer' = [timer EXCEPT ![w] = Backoff(retries[w])]
    /\ pc' = [pc EXCEPT ![w] = "q_backoff"]
    /\ UNCHANGED <<shared, bucketv, prefix, retries, suggestions, api_calls, enqueued,
                   granted, uncounted, ret,
                   mvars, files>>

\* mutant: after the backoff the request is repeated at once, without consume()
QBackoffResends(w) ==
    /\ pc[w] = "q_backoff"
    /\ timer[w] = 0
    /\ retries' = [retries EXCEPT ![w] = @ + 1]
    /\ pc' = [pc EXCEPT ![w] = IF Continue(retries[w] + 1) THEN "q_request" ELSE "q_loop"]
    /\ UNCHANGED <<shared, bucketv, prefix, suggestions, timer, whist, mvars, files>>

\* retries += 1; continue
QBackoff(w) ==
    /\ pc[w] = "q_backoff"
    /\ timer[w] = 0
    /\ retries' = [retries EXCEPT ![w] = @ + 1]
    /\ pc' = [pc EXCEPT ![w] = "q_loop"]
    /\ UNCHANGED <<shared, bucketv, prefix, suggestions, timer, whist, mvars, files>>

\* if retries >= MAX_RETRIES: return []
GiveUp(r) == r >= MAX_RETRIES

\* mutant: the handler re-raises once the retries are spent; the thread dies
QRequestErrorRaises(w) ==
    /\ pc[w] = "q_request"
    /\ attempts' = [attempts EXCEPT ![w] = @ + 1]
    /\ unsent' = unsent - 1
    /\ IF retries[w] >= MAX_RETRIES
       THEN /\ pc' = [pc EXCEPT ![w] = "stopped"]
            /\ UNCHANGED <<retries, timer>>
       ELSE /\ retries' = [retries EXCEPT ![w] = @ + 1]
            /\ timer' = [timer EXCEPT ![w] = ErrorDelay]
            /\ pc' = [pc EXCEPT ![w] = "q_errsleep"]
    /\ UNCHANGED <<shared, bucketv, prefix, suggestions, ret, api_calls, enqueued, granted,
                   uncounted, mvars,
                   files>>

\* mutant: the handler puts the prefix back on the queue when it gives up
QRequestErrorRequeues(w) ==
    /\ pc[w] = "q_request"
    /\ attempts' = [attempts EXCEPT ![w] = @ + 1]
    /\ unsent' = unsent - 1
    /\ IF retries[w] >= MAX_RETRIES
       THEN /\ suggestions' = [suggestions EXCEPT ![w] = <<>>]
            /\ ret' = [ret EXCEPT ![w] = "exhausted"]
            /\ pc' = [pc EXCEPT ![w] = "w_merge"]
            /\ queue' = Append(queue, prefix[w])
            /\ UNCHANGED <<retries, timer>>
       ELSE /\ retries' = [retries EXCEPT ![w] = @ + 1]
            /\ timer' = [timer EXCEPT ![w] = ErrorDelay]
            /\ pc' = [pc EXCEPT ![w] = "q_errsleep"]
            /\ UNCHANGED <<suggestions, ret, queue>>
    /\ UNCHANGED <<explored_prefixes, all_names, request_counter, last_saved_request,
                   stop_event, data_lock, bucketv, prefix, api_calls, enqueued, granted,
                   uncounted, mvars, files>>

\* except Exception: give up, or retries += 1 and time.sleep(0.5)
QRequestError(w) ==
    /\ pc[w] = "q_request"
    /\ \E o \in ErrorOutcomes : TRUE
    /\ attempts' = [attempts EXCEPT ![w] = @ + 1]
    /\ unsent' = unsent - 1
    /\ IF GiveUp(retries[w])
       THEN /\ suggestions' = [suggestions EXCEPT ![w] = <<>>]
            /\ ret' = [ret EXCEPT ![w] = "exhausted"]
            /\ pc' = [pc EXCEPT ![w] = "w_merge"]
            /\ UNCHANGED <<retries, timer>>
       ELSE /\ retries' = [retries EXCEPT ![w] = @ + 1]
            /\ timer' = [timer EXCEPT ![w] = ErrorDelay]
            /\ pc' = [pc EXCEPT ![w] = "q_errsleep"]
            /\ UNCHANGED <<suggestions, ret>>
    /\ UNCHANGED <<shared, bucketv, prefix, api_calls, enqueued, granted, uncounted, mvars, files>>

\* the end of time.sleep(0.5)
QErrSleep(w) ==
    /\ pc[w] = "q_errsleep"
    /\ timer[w] = 0
    /\ pc' = [pc EXCEPT ![w] = "q_loop"]
    /\ UNCHANGED <<shared, bucketv, prefix, retries, suggestions, timer, whist, mvars, files>>

\* ------------------------------------------------------------------------
\* worker(), after query_api returned
\* ------------------------------------------------------------------------

\* with data_lock: for name in suggestions: all_names.add(name)
WMerge(w) ==
    /\ pc[w] = "w_merge"
    /\ data_lock = 0
    /\ all_names' = all_names \cup Range(suggestions[w])
    /\ pc' = [pc EXCEPT ![w] = "w_expand"]
    /\ UNCHANGED <<queue, explored_prefixes, request_counter, last_saved_request,
                   stop_event, data_lock, bucketv, prefix, retries, suggestions, timer,
                   whist, mvars, files>>

\* mutant: a full page is expanded whatever the length of the prefix
ExpandAnyLength(sugg, p) == Len(sugg) >= MAX_RESULTS

\* mutant: the length test is off by one
ExpandOffByOne(sugg, p) == Len(sugg) >= MAX_RESULTS /\ Len(p) <= MAX_PREFIX_LENGTH

\* if len(suggestions) >= MAX_RESULTS and len(prefix) < MAX_PREFIX_LENGTH
Expand(sugg, p) == Len(sugg) >= MAX_RESULTS /\ Len(p) < MAX_PREFIX_LENGTH

\* mutant: every new prefix is put twice
PushTwice(q, nps) == q \o nps \o nps

\* for np in new_prefixes: if np not in explored_prefixes: prefix_queue.put(np)
PushNew(q, nps) == q \o SelectSeq(nps, LAMBDA np : np \notin explored_prefixes)

\* the expansion under data_lock, then prefix_queue.task_done()
WExpand(w) ==
    /\ pc[w] = "w_expand"
    /\ IF Expand(suggestions[w], prefix[w])
       THEN /\ data_lock = 0
            /\ queue' = PushNew(queue, NewPrefixes(prefix[w]))
            /\ enqueued' = PutsAfter(queue, queue')
       ELSE UNCHANGED <<queue, enqueued>>
    /\ pc' = [pc EXCEPT ![w] = "w_loop"]
    /\ prefix' = [prefix EXCEPT ![w] = <<>>]
    /\ suggestions' = [suggestions EXCEPT ![w] = <<>>]
    /\ retries' = [retries EXCEPT ![w] = 0]
    /\ attempts' = [attempts EXCEPT ![w] = 0]
    /\ granted' = [granted EXCEPT ![w] = 0]
    /\ ret' = [ret EXCEPT ![w] = "none"]
    /\ UNCHANGED <<explored_prefixes, all_names, request_counter, last_saved_request,
                   stop_event, data_lock, bucketv, timer, api_calls, uncounted, unsent,
                   mvars, files>>

\* ------------------------------------------------------------------------
\* time
\* ------------------------------------------------------------------------

Min(a, b) == IF a <= b THEN a ELSE b

\* the longest sleep of the program: no sleep outlasts Horizon ticks
Horizon == Max(Period + Buffer, Max(Backoff(MAX_RETRIES), ErrorDelay))

\* d ticks pass: time.monotonic() grows by d in every thread, sleeps get d shorter
Advance(d) ==
    /\ elapsed' = Min(elapsed + d, Period + 1)
    /\ timer' = [w \in Workers |-> Max(0, timer[w] - d)]
    /\ admits' = [i \in 1..Period |-> IF i > d THEN admits[i - d] ELSE 0]
    /\ UNCHANGED <<shared, tokens, bucket_lock, pc, prefix, retries, suggestions, whist,
                   mvars, files>>

\* one tick passes
Tick == Advance(1)

\* a long time passes: every sleep in progress ends and the bucket's period is over
Elapse == Advance(Horizon)

\* ------------------------------------------------------------------------
\* main()
\* ------------------------------------------------------------------------

\* for c in "abcdefghijklmnopqrstuvwxyz": prefix_queue.put(c)
MSeed ==
    /\ mpc = "m_seed"
    /\ queue' = queue \o SeedPrefixes
    /\ enqueued' = PutsAfter(queue, queue')
    /\ mpc' = "m_start"
    /\ UNCHANGED <<explored_prefixes, all_names, request_counter, last_saved_request,
                   stop_event, data_lock, bucketv, wvars, api_calls, attempts, unsent,
                   granted, uncounted,
                   ret, pending, final_saves, complete, files>>

\* for _ in range(MAX_WORKERS): t = Thread(target=worker); t.start()
MStart ==
    /\ mpc = "m_start"
    /\ pc' = [w \in Workers |-> "w_loop"]
    /\ mpc' = "m_monitor"
    /\ UNCHANGED <<shared, bucketv, prefix, retries, suggestions, timer, whist, pending,
                   final_saves, complete, files>>

\* time.sleep(1); if prefix_queue.empty():
MMonitor ==
    /\ mpc = "m_monitor"
    /\ mpc' = IF queue = <<>> THEN "m_recheck" ELSE "m_monitor"
    /\ UNCHANGED <<shared, bucketv, wvars, whist, pending, final_saves, complete, files>>

\* time.sleep(2); if prefix_queue.empty(): break
MRecheck ==
    /\ mpc = "m_recheck"
    /\ IF queue = <<>>
       THEN mpc' = "m_join" /\ complete' = TRUE
       ELSE mpc' = "m_monitor" /\ UNCHANGED complete
    /\ UNCHANGED <<shared, bucketv, wvars, whist, pending, final_saves, files>>

\* KeyboardInterrupt raised in main() before the try statement is entered
InterruptBeforeTry ==
    /\ mpc \in {"m_seed", "m_start"}
    /\ mpc' = "m_raised"
    /\ UNCHANGED <<shared, bucketv, wvars, whist, pending, final_saves, complete, files>>

\* except KeyboardInterrupt: stop_event.set()
InterruptInTry ==
    /\ mpc \in {"m_monitor", "m_recheck"}
    /\ stop_event' = TRUE
    /\ mpc' = "m_drain"
    /\ UNCHANGED <<queue, explored_prefixes, all_names, request_counter,
                   last_saved_request, data_lock, bucketv, wvars, whist, pending,
                   final_saves, complete, files>>

\* KeyboardInterrupt raised inside the except clause: finally runs, then it propagates
InterruptInHandler ==
    /\ mpc = "m_drain"
    /\ pending' = TRUE
    /\ mpc' = "m_join"
    /\ UNCHANGED <<shared, bucketv, wvars, whist, final_saves, complete, files>>

\* KeyboardInterrupt raised inside the finally clause: the rest of it is skipped
InterruptInFinally ==
    /\ mpc \in {"m_join", "m_set", "m_save_names", "m_save_stats", "m_summary"}
    /\ mpc' = "m_raised"
    /\ UNCHANGED <<shared, bucketv, wvars, whist, pending, final_saves, complete, files>>

\* while not prefix_queue.empty(): prefix_queue.get_nowait()
MDrain ==
    /\ mpc = "m_drain"
    /\ IF queue # <<>>
       THEN queue' = Tail(queue) /\ UNCHANGED mpc
       ELSE mpc' = "m_join" /\ UNCHANGED queue
    /\ UNCHANGED <<explored_prefixes, all_names, request_counter, last_saved_request,
                   stop_event, data_lock, bucketv, wvars, whist, pending, final_saves,
                   complete, files>>

\* for t in threads: t.join(timeout=5): every join returns, the thread ended or not
MJoin ==
    /\ mpc = "m_join"
    /\ mpc' = "m_set"
    /\ UNCHANGED <<shared, bucketv, wvars, whist, pending, final_saves, complete, files>>

\* stop_event.set(); save_progress() is called
MSet ==
    /\ mpc = "m_set"
    /\ stop_event' = TRUE
    /\ final_saves' = final_saves + 1
    /\ mpc' = "m_save_names"
    /\ UNCHANGED <<queue, explored_prefixes, all_names, request_counter,
                   last_saved_request, data_lock, bucketv, wvars, whist, pending,
                   complete, files>>

\* save_progress(), the names file; an I/O error ends save_progress
MSaveNames ==
    /\ mpc = "m_save_names"
    /\ \/ names_file' = WriteNames(all_names) /\ mpc' = "m_save_stats"
       \/ UNCHANGED names_file /\ mpc' = "m_summary"
    /\ UNCHANGED <<shared, bucketv, wvars, whist, pending, final_saves, complete,
                   stats_file>>

\* save_progress(), the stats file
MSaveStats ==
    /\ mpc = "m_save_stats"
    /\ \/ stats_file' = WriteStats(all_names, request_counter)
       \/ UNCHANGED stats_file
    /\ mpc' = "m_summary"
    /\ UNCHANGED <<shared, bucketv, wvars, whist, pending, final_saves, complete,
                   names_file>>

\* the final log lines and prints; a pending exception propagates after them
MSummary ==
    /\ mpc = "m_summary"
    /\ mpc' = IF pending THEN "m_raised" ELSE "m_done"
    /\ UNCHANGED <<shared, bucketv, wvars, whist, pending, final_saves, complete, files>>

WorkerStep(w) ==
    \/ WLoop(w) \/ WGet(w) \/ WGetEmpty(w) \/ WCheck(w)
    \/ QLoop(w) \/ CEnter(w) \/ CSleep(w) \/ QCount(w) \/ QSave(w)
    \/ QRequestOk(w) \/ QRequest429(w) \/ QBackoff(w) \/ QRequestError(w) \/ QErrSleep(w)
    \/ WMerge(w) \/ WExpand(w)

MainStep ==
    \/ MSeed \/ MStart \/ MMonitor \/ MRecheck \/ MDrain
    \/ MJoin \/ MSet \/ MSaveNames \/ MSaveStats \/ MSummary

Interrupt ==
    \/ InterruptBeforeTry \/ InterruptInTry \/ InterruptInHandler \/ InterruptInFinally

Next ==
    \/ \E w \in Workers : WorkerStep(w)
    \/ MainStep
    \/ Interrupt
    \/ Elapse

Spec == Init /\ [][Next]_vars

\* ------------------------------------------------------------------------
\* The token bucket alone: every thread calls bucket.consume() again and again,
\* as query_api does in its loop, and time passes tick by tick.
\* ------------------------------------------------------------------------

InitBucket ==
    /\ Globals
    /\ queue = <<>>
    /\ enqueued = Puts(queue)
    /\ pc = [w \in Workers |-> "c_enter"]
    /\ mpc = "m_monitor"

\* consume() returned True; the caller comes back later with its next call
NextConsume(w) ==
    /\ pc[w] = "q_count"
    /\ pc' = [pc EXCEPT ![w] = "c_enter"]
    /\ granted' = [granted EXCEPT ![w] = 0]
    /\ uncounted' = uncounted - 1
    /\ UNCHANGED <<shared, bucketv, prefix, retries, suggestions, timer, api_calls, enqueued,
                   attempts, unsent, ret, mvars, files>>

NextBucket ==
    \/ \E w \in Workers : CEnter(w) \/ CSleep(w) \/ NextConsume(w)
    \/ Tick

SpecBucket == InitBucket /\ [][NextBucket]_vars

\* ------------------------------------------------------------------------
\* The crawl with a transport that answers every request and no interrupt.
\* ------------------------------------------------------------------------

NextReliable ==
    \/ \E w \in Workers :
          \/ WLoop(w) \/ WGet(w) \/ WGetEmpty(w) \/ WCheck(w)
          \/ QLoop(w) \/ CEnter(w) \/ CSleep(w) \/ QCount(w) \/ QSave(w)
          \/ QRequestOk(w) \/ WMerge(w) \/ WExpand(w)
    \/ MSeed \/ MStart \/ MMonitor \/ MRecheck
    \/ MJoin \/ MSet \/ MSaveNames \/ MSaveStats \/ MSummary
    \/ Elapse

SpecReliable == Init /\ [][NextReliable]_vars

\* ------------------------------------------------------------------------
\* The crawl against a server that answers the seed prefixes and is down or
\* rate-limiting for every longer prefix,
\* with Ctrl+C during the monitor loop, every thread scheduled again and again and
\* time passing: a running thread is not starved by the interpreter, a sleep ends,
\* and requests.get returns (timeout=10).
\* ------------------------------------------------------------------------

\* requests.get answers 200 for a seed prefix
QRequestSeedOk(w) == Len(prefix[w]) = 1 /\ QRequestOk(w)

FailingStep(w) ==
    \/ QRequestSeedOk(w)
    \/ WLoop(w) \/ WGet(w) \/ WGetEmpty(w) \/ WCheck(w)
    \/ QLoop(w) \/ CEnter(w) \/ CSleep(w) \/ QCount(w) \/ QSave(w)
    \/ QRequest429(w) \/ QBackoff(w) \/ QRequestError(w) \/ QErrSleep(w)
    \/ WMerge(w) \/ WExpand(w)

NextShutdown ==
    \/ \E w \in Workers : FailingStep(w)
    \/ MainStep
    \/ InterruptInTry
    \/ Elapse

Fairness ==
    /\ \A w \in Workers : WF_vars(FailingStep(w))
    /\ WF_vars(Elapse)

SpecShutdown == Init /\ [][NextShutdown]_vars /\ Fairness

\* ------------------------------------------------------------------------
\* The crawl against a deterministic server that answers every request, with no
\* interrupt: the first seed has a full page of words, each of its children has one
\* word of its own, every other prefix has none.
\* ------------------------------------------------------------------------

Server(p) ==
    IF p = <<1>> THEN [i \in 1..MAX_RESULTS |-> i]
    ELSE IF Len(p) = 2 /\ p[1] = 1 THEN <<MAX_RESULTS + p[2]>>
    ELSE <<>>

\* every word the server holds
ServerWords == UNION {Range(Server(p)) : p \in Prefixes}

\* requests.get answers 200 with the server's page for the prefix
QRequestServer(w) ==
    /\ pc[w] = "q_request"
    /\ suggestions' = [suggestions EXCEPT ![w] = Server(prefix[w])]
    /\ attempts' = [attempts EXCEPT ![w] = @ + 1]
    /\ unsent' = unsent - 1
    /\ ret' = [ret EXCEPT ![w] = "success"]
    /\ pc' = [pc EXCEPT ![w] = "w_merge"]
    /\ UNCHANGED <<shared, bucketv, prefix, retries, timer, api_calls, enqueued, granted,
                   uncounted, mvars, files>>

NextServer ==
    \/ \E w \in Workers :
          \/ WLoop(w) \/ WGet(w) \/ WGetEmpty(w) \/ WCheck(w)
          \/ QLoop(w) \/ CEnter(w) \/ CSleep(w) \/ QCount(w) \/ QSave(w)
          \/ QRequestServer(w) \/ WMerge(w) \/ WExpand(w)
    \/ MSeed \/ MStart \/ MMonitor \/ MRecheck
    \/ MJoin \/ MSet \/ MSaveNames \/ MSaveStats \/ MSummary
    \/ Elapse

SpecServer == Init /\ [][NextServer]_vars

\* ------------------------------------------------------------------------
\* The crawl with no interrupt and bucket.lock taken and released in separate
\* steps, so that the states in which a thread holds it are seen.
\* ------------------------------------------------------------------------

NextLocks ==
    \/ \E w \in Workers :
          \/ WLoop(w) \/ WGet(w) \/ WGetEmpty(w) \/ WCheck(w)
          \/ QLoop(w) \/ CLock(w) \/ CUnlock(w) \/ CSleep(w) \/ QCount(w) \/ QSave(w)
          \/ QRequestOk(w) \/ QRequest429(w) \/ QBackoff(w)
          \/ QRequestError(w) \/ QErrSleep(w)
          \/ WMerge(w) \/ WExpand(w)
    \/ MSeed \/ MStart \/ MMonitor \/ MRecheck
    \/ MJoin \/ MSet \/ MSaveNames \/ MSaveStats \/ MSummary
    \/ Elapse

SpecLocks == Init /\ [][NextLocks]_vars

\* ------------------------------------------------------------------------
\* The crawl on a queue that holds prefixes twice: the queue already holds every
\* seed when main() seeds it.  The program never queues a prefix twice; this
\* start puts the test of explored_prefixes in worker() to use.
\* ------------------------------------------------------------------------

InitDup ==
    /\ Globals
    /\ queue = SeedPrefixes
    /\ enqueued = Puts(queue)
    /\ pc = [w \in Workers |-> "unstarted"]
    /\ mpc = "m_seed"

SpecDup == InitDup /\ [][Next]_vars

\* ------------------------------------------------------------------------
\* Properties
\* ------------------------------------------------------------------------

\* a worker between popping a prefix and the end of its merge and expansion
InFlight(w) ==
    pc[w] \in {"w_check", "q_loop", "c_enter", "c_sleep", "q_count", "q_save",
               "q_request", "q_backoff", "q_errsleep", "w_merge", "w_expand"}

\* a worker inside query_api or holding its result
Processing(w) == InFlight(w) /\ pc[w] # "w_check"

AllStopped == \A w \in Workers : pc[w] = "stopped"

RECURSIVE SumTo(_, _)
SumTo(f, n) == IF n = 0 THEN 0 ELSE f[n] + SumTo(f, n - 1)

\* tokens granted during the last Period ticks, the current one included
WindowAdmits == SumTo(admits, Period)

\* C1: query_api is called at most once per prefix: a prefix has been passed to
\* query_api exactly when it is in explored_prefixes (the test-and-mark succeeded
\* once and marked it), and no two workers process the same prefix.
C1_ExploredOnce ==
    /\ \A p \in Prefixes : api_calls[p] <= 1
    /\ \A p \in Prefixes : api_calls[p] = 1 <=> p \in explored_prefixes
    /\ \A w \in Workers : Processing(w) => prefix[w] \in explored_prefixes
    /\ \A w1, w2 \in Workers :
          (w1 # w2 /\ Processing(w1) /\ Processing(w2)) => prefix[w1] # prefix[w2]

\* C1 witness: a worker has popped the second copy of a prefix that another worker
\* marked and is processing; the prefix was passed to query_api once
C1_Witness ==
    \E w1, w2 \in Workers :
        /\ w1 # w2 /\ pc[w1] = "w_check" /\ Processing(w2)
        /\ prefix[w1] = prefix[w2]
        /\ api_calls[prefix[w1]] = 1

\* a worker ends its iteration on the prefix it holds
EndsIteration(w) == pc[w] = "w_expand" /\ pc'[w] = "w_loop"

\* the children of the worker's prefix are appended to the queue in this step
PushesChildren(w) == queue' = queue \o NewPrefixes(prefix[w])

\* C2 as stated: the children of a processed prefix are pushed if and only if the
\* result has exactly MAX_RESULTS words and the prefix is shorter than
\* MAX_PREFIX_LENGTH.
C2_ExpandsIffCountEqualsCap ==
    [][\A w \in Workers : EndsIteration(w) =>
          (PushesChildren(w) <=>
              (Len(suggestions[w]) = MAX_RESULTS /\ Len(prefix[w]) < MAX_PREFIX_LENGTH))]_vars

\* C2 amended: the children of a processed prefix are pushed if and only if the
\* result has at least MAX_RESULTS words and the prefix is shorter than
\* MAX_PREFIX_LENGTH; otherwise the queue is left as it is.
C2_ExpandsIffCountReachesCap ==
    [][\A w \in Workers : EndsIteration(w) =>
          /\ PushesChildren(w) <=>
                (Len(suggestions[w]) >= MAX_RESULTS /\ Len(prefix[w]) < MAX_PREFIX_LENGTH)
          /\ PushesChildren(w) \/ queue' = queue]_vars

\* C2 witness: the children of a seed prefix are in the queue
C2_Witness ==
    \E i \in 1..Len(queue) : Len(queue[i]) = 2

\* C3 as stated, its final state: when main() is done and every worker has stopped,
\* the queue is empty.
C3_FrontierEmptyAtEnd ==
    (mpc = "m_done" /\ AllStopped) => queue = <<>>

\* C4 as stated: once main() has declared the queue empty for good, the queue is
\* empty and no worker is between popping a prefix and finishing its expansion.
C4_QuiescentWhenComplete ==
    complete => (queue = <<>> /\ \A w \in Workers : ~InFlight(w))

\* C5 as stated: at most Capacity tokens are granted in any window of Period ticks.
C5_WindowWithinCapacity == WindowAdmits <= Capacity

\* C5 amended: at most Capacity tokens are granted between two resets of the bucket,
\* and at most 2 * Capacity in any window of Period ticks (a window holds at most
\* one reset, with a burst before it and a burst after it).
C5_WindowWithinTwoBursts ==
    /\ tokens \in 0..Capacity
    /\ WindowAdmits <= 2 * Capacity
    /\ elapsed < Period => WindowAdmits <= 2 * Capacity - tokens

\* C5 witness: a window with two full bursts
C5_Witness == WindowAdmits = 2 * Capacity

\* C6: one call of query_api makes at most MAX_RETRIES + 1 requests and consumes at
\* most MAX_RETRIES + 1 tokens.
C6_RetryBudget ==
    \A w \in Workers :
        /\ attempts[w] <= MAX_RETRIES + 1
        /\ granted[w] <= MAX_RETRIES + 1
        /\ attempts[w] <= granted[w]

\* C6 witness: a call that used its whole budget and returned
C6_Witness ==
    \E w \in Workers :
        /\ attempts[w] = MAX_RETRIES + 1 /\ granted[w] = MAX_RETRIES + 1
        /\ pc[w] = "w_merge"

\* C7: whatever the transport does, query_api returns a list (the empty one unless a
\* request succeeded) to a worker that goes on with its loop; a worker is stopped
\* only when stop_event is set.
C7_NoErrorEscapes ==
    \A w \in Workers :
        /\ pc[w] = "stopped" => stop_event
        /\ pc[w] \in {"w_merge", "w_expand"} =>
              /\ ret[w] \in {"success", "exhausted", "cancelled"}
              /\ suggestions[w] \in Seq(Words)
              /\ ret[w] # "success" => suggestions[w] = <<>>

\* C7 witness: a worker got the empty list after failed requests and the run goes on
C7_Witness ==
    \E w \in Workers :
        /\ ret[w] = "exhausted" /\ pc[w] = "w_expand"
        /\ ~stop_event

\* C8: when every attempt for a prefix failed, query_api returns the empty list, the
\* worker's steps on that prefix leave all_names and the queue as they are, and the
\* prefix is in explored_prefixes and not in the queue; explored_prefixes never
\* loses a prefix.
C8_ExhaustedPrefix ==
    /\ [](\A w \in Workers : ret[w] = "exhausted" =>
             /\ suggestions[w] = <<>>
             /\ prefix[w] \in explored_prefixes
             /\ prefix[w] \notin Range(queue))
    /\ [][/\ \A w \in Workers : (ret[w] = "exhausted" /\ pc'[w] # pc[w]) =>
                (all_names' = all_names /\ queue' = queue)
          /\ explored_prefixes \subseteq explored_prefixes']_vars

\* C8 witness: a worker has finished a prefix whose attempts all failed while the
\* other worker is processing another prefix
C8_Witness ==
    \E w1, w2 \in Workers :
        /\ w1 # w2
        /\ ret[w1] = "exhausted" /\ pc[w1] = "w_expand"
        /\ Processing(w2) /\ pc[w2] = "q_request"

\* C9 as stated, for a run that started its workers: when main() ends, normally or
\* by an exception, stop_event is set and save_progress was called once by main().
C9_FinalSaveOnEveryExit ==
    (mpc \in {"m_done", "m_raised"} /\ \A w \in Workers : pc[w] # "unstarted") =>
        (stop_event /\ final_saves = 1)

\* C10 as stated: after main()'s final save_progress, no worker changes all_names or
\* request_counter.
C10_NothingAfterFinalSave ==
    [][(mpc \in {"m_summary", "m_done"}) =>
          (all_names' = all_names /\ request_counter' = request_counter)]_vars

\* a worker begins an attempt: the loop guard of query_api let it through
BeginsAttempt(w) == pc[w] = "q_loop" /\ pc'[w] = "c_enter"

\* C11: once stop_event is set it stays set and every worker eventually stops; no
\* worker begins an attempt with stop_event set, so the only request a worker makes
\* after the signal is that of the attempt it had begun before (it is inside
\* bucket.consume(), counting, or about to call requests.get), and a request is made
\* only from such an attempt.
C11_Shutdown ==
    /\ stop_event ~> AllStopped
    /\ [][/\ stop_event => stop_event'
          /\ \A w \in Workers :
                /\ BeginsAttempt(w) => ~stop_event
                /\ (pc'[w] = "c_enter" /\ pc[w] # "c_enter") =>
                      (BeginsAttempt(w) \/ pc[w] = "c_sleep")
                /\ (pc'[w] = "q_request" /\ pc[w] # "q_request") =>
                      pc[w] \in {"q_count", "q_save"}
                /\ (pc'[w] = "q_count" /\ pc[w] # "q_count") => pc[w] = "c_enter"
                /\ attempts'[w] > attempts[w] =>
                      (pc[w] = "q_request" /\ pc'[w] # "q_request")]_vars

\* C11 witness: with stop_event set, a worker that was inside an attempt has made its
\* request, got 429, and is back at the loop guard, while the other has stopped
C11_Witness ==
    \E w1, w2 \in Workers :
        /\ stop_event
        /\ pc[w1] = "q_loop" /\ attempts[w1] = 1 /\ retries[w1] = 1
        /\ pc[w2] = "stopped"

\* the run ended by quiescence: main() broke out of the monitor loop, finished, and
\* every worker has stopped
EndedByQuiescence == complete /\ mpc = "m_done" /\ AllStopped

\* C12 as stated, for the deterministic server: whatever the interleaving, a run that
\* ended by quiescence ends with the same word set, the one that holds every word of
\* the server.
C12_SameWordSetAtEnd ==
    EndedByQuiescence => all_names = ServerWords

\* C13 as stated: against the server with one saturated seed, the run ends with the
\* seed and each of its children queried once, 1 + AlphabetSize requests in all, and
\* no prefix of three characters is ever in the queue.
C13_SaturatedBranchScenario ==
    /\ \A i \in 1..Len(queue) : Len(queue[i]) <= 2
    /\ EndedByQuiescence =>
          /\ request_counter = 1 + AlphabetSize
          /\ \A p \in Prefixes : api_calls[p] = IF Server(p) # <<>> THEN 1 ELSE 0

C15_SaveOutsideLock ==
    \A w \in Workers : pc[w] = "q_save" => data_lock # w

\* C16: request_counter - last_saved_request stays in 0..SaveInterval-1 and
\* last_saved_request is a multiple of SaveInterval; request_counter grows by one at
\* a time, and the worker whose increment makes it a multiple of SaveInterval, and
\* no other, sets last_saved_request to it and calls save_progress itself, holding
\* data_lock, before anybody else can count.
C16_CheckpointTrigger ==
    /\ [](/\ request_counter - last_saved_request \in 0..(SaveInterval - 1)
          /\ last_saved_request % SaveInterval = 0
          /\ data_lock # 0 => pc[data_lock] = "q_save"
          /\ \A w \in Workers : pc[w] = "q_save" =>
                /\ data_lock = w
                /\ request_counter > 0 /\ last_saved_request = request_counter)
    /\ [][/\ request_counter' # request_counter =>
                /\ request_counter' = request_counter + 1
                /\ \E w \in Workers :
                      /\ pc[w] = "q_count" /\ pc'[w] \in {"q_save", "q_request"}
                      /\ pc'[w] = "q_save" <=> request_counter' % SaveInterval = 0
          /\ last_saved_request' # last_saved_request =>
                /\ last_saved_request' = request_counter'
                /\ request_counter' # request_counter]_vars

\* C16 witness: the second periodic checkpoint, on request 2 * SaveInterval
C16_Witness ==
    \E w \in Workers :
        /\ pc[w] = "q_save" /\ data_lock = w
        /\ request_counter = 2 * SaveInterval /\ last_saved_request = request_counter

\* a worker thread that exists and has not ended
Running(w) == pc[w] \notin {"unstarted", "stopped"}

\* a worker in time.sleep or in the timed wait of prefix_queue.get
Sleeping(w) == pc[w] \in {"c_sleep", "q_backoff", "q_errsleep", "w_get"}

\* a worker waiting for data_lock or for bucket.lock, held by another thread
Blocked(w) ==
    \/ /\ data_lock \notin {0, w}
       /\ \/ pc[w] \in {"w_check", "q_count", "w_merge"}
          \/ pc[w] = "w_expand" /\ Expand(suggestions[w], prefix[w])
    \/ bucket_lock \notin {0, w} /\ pc[w] = "c_enter"

\* C17: no worker holds data_lock and bucket.lock together, a worker that sleeps or
\* has ended holds neither, and whenever some worker is running, a running worker is
\* not waiting for a lock (main() takes no lock at all).
C17_LockDiscipline ==
    /\ \A w \in Workers :
          /\ ~(data_lock = w /\ bucket_lock = w)
          /\ (Sleeping(w) \/ ~Running(w)) => (data_lock # w /\ bucket_lock # w)
          /\ bucket_lock = w => pc[w] = "c_enter"
          /\ data_lock = w => pc[w] = "q_save"
    /\ (\E w \in Workers : Running(w)) =>
          (\E w \in Workers : Running(w) /\ ~Blocked(w))

\* C17 witness: one worker holds bucket.lock while the other holds data_lock, and
\* neither waits for the other's lock
C17_Witness ==
    \E w1, w2 \in Workers :
        /\ bucket_lock = w1 /\ data_lock = w2
        /\ ~Blocked(w1) /\ ~Blocked(w2)

\* a step that changes the queue, explored_prefixes, all_names or the two counters,
\* or that writes a snapshot of them to a file
TouchesRunState ==
    \/ queue' # queue
    \/ explored_prefixes' # explored_prefixes
    \/ all_names' # all_names
    \/ request_counter' # request_counter
    \/ last_saved_request' # last_saved_request
    \/ names_file' # names_file
    \/ stats_file' # stats_file

\* C18 as stated: a step that changes or snapshots the shared state is taken by a
\* thread that holds data_lock: while a worker holds data_lock, only that worker
\* takes such a step.
C18_MutationsUnderLock ==
    [][(TouchesRunState /\ data_lock # 0) => pc'[data_lock] # pc[data_lock]]_vars

\* main() handled Ctrl+C: it set stop_event, drained the queue to the end and went
\* on to the finally clause
DrainedAfterInterrupt ==
    /\ stop_event /\ ~complete /\ ~pending
    /\ mpc \in {"m_join", "m_set", "m_save_names", "m_save_stats", "m_summary", "m_done"}

\* C19 as stated: once main() has drained the queue after an interrupt, the queue
\* is empty and stays so.
C19_DrainIsFinal ==
    DrainedAfterInterrupt => queue = <<>>

\* C20: prefix_queue never holds a prefix twice, never holds a prefix that is in
\* explored_prefixes, and over the run every prefix is put on it at most once.
C20_FrontierHoldsNoDuplicates ==
    /\ \A i, j \in DOMAIN queue : queue[i] = queue[j] => i = j
    /\ \A i \in DOMAIN queue : queue[i] \notin explored_prefixes
    /\ \A p \in Prefixes : enqueued[p] <= 1

\* a saturated seed has been expanded: its children are on the queue, the seed is explored
C20_Witness ==
    /\ Len(queue) = AlphabetSize
    /\ \A i \in DOMAIN queue : Len(queue[i]) = 2 /\ enqueued[queue[i]] = 1
    /\ \A i \in DOMAIN SeedPrefixes : SeedPrefixes[i] \in explored_prefixes /\ enqueued[SeedPrefixes[i]] = 1

\* the number of strings of length 1..MAX_PREFIX_LENGTH over the expansion alphabet
SpaceBound == SumTo([k \in 1..MAX_PREFIX_LENGTH |-> AlphabetSize ^ k], MAX_PREFIX_LENGTH)

\* a prefix of the search space: length 1..MAX_PREFIX_LENGTH, a seed character first
InSpace(p) ==
    /\ Len(p) \in 1..MAX_PREFIX_LENGTH
    /\ <<p[1]>> \in Range(SeedPrefixes)
    /\ \A i \in 1..Len(p) : p[i] \in Chars

\* C21: every prefix on prefix_queue or in explored_prefixes has length
\* 1..MAX_PREFIX_LENGTH, starts with a seed character and goes on with characters
\* of the expansion alphabet, and explored_prefixes holds at most SpaceBound prefixes.
C21_BoundedSearchSpace ==
    /\ \A i \in DOMAIN queue : InSpace(queue[i])
    /\ \A p \in explored_prefixes : InSpace(p)
    /\ Cardinality(explored_prefixes) <= SpaceBound

\* the seed and all its children have been explored, the longest prefixes included,
\* and nothing is left on the queue
C21_Witness ==
    /\ queue = <<>>
    /\ \A w \in Workers : ~InFlight(w)
    /\ Cardinality(explored_prefixes) = 1 + AlphabetSize
    /\ \E p \in explored_prefixes : Len(p) = MAX_PREFIX_LENGTH

\* consume() returned True to worker w in this step
Admitted(w) == granted'[w] = granted[w] + 1

\* C22: tokens stays within 0..Capacity; a step admits at most one caller and takes
\* exactly one token for it (from the tokens left, or from a bucket reset in that
\* step); tokens grows and the bucket's clock restarts only in a reset, and a reset
\* happens only when more than Period has elapsed since the previous one. So at
\* most Capacity callers are admitted between two resets.
C22_TokenBucketState ==
    /\ [](tokens \in 0..Capacity)
    /\ [][/\ \A w1, w2 \in Workers : Admitted(w1) /\ Admitted(w2) => w1 = w2
          /\ \A w \in Workers :
                Admitted(w) => IF elapsed > Period
                               THEN tokens' = Capacity - 1 /\ elapsed' = 0
                               ELSE tokens > 0 /\ tokens' = tokens - 1 /\ elapsed' = elapsed
          /\ tokens' < tokens => \E w \in Workers : Admitted(w)
          /\ tokens' > tokens => elapsed > Period /\ elapsed' = 0
          /\ elapsed' < elapsed => elapsed > Period /\ tokens' \in {Capacity, Capacity - 1}
         ]_vars

\* a full burst was admitted, the period passed, and the next caller was admitted on
\* the first token of the reset bucket
C22_Witness ==
    /\ tokens = Capacity - 1
    /\ elapsed = 0
    /\ WindowAdmits = Capacity + 1

\* ------------------------------------------------------------------------
\* The token bucket with its callers under a punctual, fair scheduler: a caller that
\* can run (it is about to take bucket.lock, or its sleep has ended) takes its step
\* before the clock moves on, no caller is starved by the interpreter, and time
\* passes. A caller that was admitted may call again at any time.
\* ------------------------------------------------------------------------

\* worker w can run now
Runnable(w) == pc[w] = "c_enter" \/ (pc[w] = "c_sleep" /\ timer[w] = 0)

\* one tick passes once no caller can run
TickPunctual == (\A w \in Workers : ~Runnable(w)) /\ Tick

NextBucketFair ==
    \/ \E w \in Workers : CEnter(w) \/ CSleep(w) \/ NextConsume(w)
    \/ TickPunctual

FairnessBucket ==
    /\ \A w \in Workers : WF_vars(CEnter(w)) /\ WF_vars(CSleep(w))
    /\ WF_vars(TickPunctual)

SpecBucketFair == InitBucket /\ [][NextBucketFair]_vars /\ FairnessBucket

\* C23 as stated: every call of consume() eventually returns True; a caller that
\* has to wait sleeps a positive time that ends after the bucket's period.
C23_ConsumeReturns ==
    /\ \A w \in Workers : (pc[w] = "c_enter") ~> (pc[w] = "q_count")
    /\ [][\A w \in Workers :
            pc[w] = "c_enter" /\ pc'[w] = "c_sleep" =>
                timer'[w] > 0 /\ elapsed + timer'[w] > Period]_vars

\* calls of requests.get made so far, and calls of consume() that returned True
RequestsSent == request_counter - unsent
TokensGranted == request_counter + uncounted

\* C24: requests sent <= request_counter <= tokens granted, and each attempt has
\* its own token and its own count: the tokens not yet counted belong to the workers
\* between consume() and the increment, the counts not yet sent to the workers
\* between the increment and requests.get. So request_counter counts attempts.
C24_AdmissionBeforeAttempt ==
    /\ RequestsSent <= request_counter
    /\ request_counter <= TokensGranted
    /\ uncounted = Cardinality({w \in Workers : pc[w] = "q_count"})
    /\ unsent = Cardinality({w \in Workers : pc[w] \in {"q_save", "q_request"}})

\* a prefix was retried: two requests were consumed for, counted and sent for the
\* one prefix explored
C24_Witness ==
    /\ Cardinality(explored_prefixes) = 1
    /\ RequestsSent = 2 /\ request_counter = 2 /\ TokensGranted = 2

\* worker w leaves save_progress in this step and the two files do not both hold
\* the snapshot: a write failed
SaveFailed(w) ==
    /\ pc[w] = "q_save" /\ pc'[w] # "q_save"
    /\ \/ names_file' # WriteNames(all_names)
       \/ stats_file' # WriteStats(all_names, request_counter)

\* C25: a periodic save that fails changes nothing of the run state; the worker
\* that called it releases data_lock and goes on to its request, the other workers
\* stay where they are, none of them blocked on data_lock, and last_saved_request
\* already equals request_counter, so the next periodic save is SaveInterval
\* requests later.
C25_SaveFailureNotFatal ==
    /\ [](\A w \in Workers : pc[w] = "q_save" =>
              data_lock = w /\ last_saved_request = request_counter)
    /\ [][\A w \in Workers :
            SaveFailed(w) =>
                /\ pc'[w] = "q_request"
                /\ data_lock' = 0
                /\ UNCHANGED <<queue, explored_prefixes, all_names, request_counter,
                               last_saved_request, stop_event>>
                /\ ~SaveDue(request_counter')
                /\ \A w2 \in Workers \ {w} : pc'[w2] = pc[w2]]_vars

\* a periodic save was due and failed (nothing was ever written); the worker that
\* called it is about to send its request while another worker is inside query_api
C25_Witness ==
    /\ last_saved_request = SaveInterval /\ request_counter = SaveInterval
    /\ names_file = NoNames /\ stats_file = NoStats
    /\ data_lock = 0
    /\ \E w \in Workers : /\ pc[w] = "q_request"
                           /\ \E w2 \in Workers \ {w} : Processing(w2)

\* C26: explored_prefixes and all_names only grow, request_counter and
\* last_saved_request never decrease, and last_saved_request <= request_counter.
C26_MonotonicRunState ==
    /\ [](last_saved_request <= request_counter)
    /\ [][/\ explored_prefixes \subseteq explored_prefixes'
          /\ all_names \subseteq all_names'
          /\ request_counter <= request_counter'
          /\ last_saved_request <= last_saved_request']_vars

\* all four have grown: several prefixes explored, words found, and requests counted
\* after a periodic save
C26_Witness ==
    /\ Cardinality(explored_prefixes) >= 2
    /\ all_names # {}
    /\ last_saved_request = SaveInterval
    /\ request_counter > last_saved_request

====
